---- MODULE Spec2Model ----
(***************************************************************************)
(* Model of functions/zip-to-parquet-python/main.py: the Cloud Function    *)
(* convert_to_geoparquet(event, context).  One invocation is a straight    *)
(* line of steps (extension check, download, zip inspection, cleanup,      *)
(* conversion, output check, upload, output removal); the scratch          *)
(* directory /tmp and the destination bucket are shared by all the         *)
(* invocations of the process.                                             *)
(*                                                                         *)
(* Strings are sequences of one-character strings so that lower(),         *)
(* endswith(), Path.stem and Path.parent are computed, not assumed.  The   *)
(* fixed prefixes "/tmp/" and "/vsizip//vsigs/<bucket>/" are single        *)
(* elements of such a sequence.                                            *)
(***************************************************************************)
EXTENDS Naturals, Sequences, FiniteSets

\* ------------------------------------------------------------------ bounds
MaxEntries == 2
MaxInvocations == 2

Procs == {1, 2}

\* ------------------------------------------------------------ string model
LowerChar(c) ==
    CASE c = "Z" -> "z"
      [] c = "I" -> "i"
      [] c = "P" -> "p"
      [] c = "G" -> "g"
      [] c = "D" -> "d"
      [] c = "B" -> "b"
      [] OTHER -> c

Lower(s) == [i \in 1..Len(s) |-> LowerChar(s[i])]

EndsWith(s, suf) ==
    /\ Len(s) >= Len(suf)
    /\ SubSeq(s, Len(s) - Len(suf) + 1, Len(s)) = suf

\* str.rfind, 1-based; 0 when the character does not occur
LastIndexOf(s, c) ==
    LET hits == {i \in 1..Len(s) : s[i] = c}
    IN  IF hits = {} THEN 0 ELSE CHOOSE i \in hits : \A j \in hits : j <= i

RECURSIVE StripSlashes(_)
\* pathlib drops trailing separators when it parses a path
StripSlashes(s) ==
    IF Len(s) > 1 /\ s[Len(s)] = "/" THEN StripSlashes(SubSeq(s, 1, Len(s) - 1))
    ELSE s

\* Path(s).name: the final component
PathName(s) ==
    LET t == StripSlashes(s)
        i == LastIndexOf(t, "/")
    IN  SubSeq(t, i + 1, Len(t))

\* Path(s).stem: the final component without its last suffix
PathStem(s) ==
    LET n == PathName(s)
        i == LastIndexOf(n, ".")
    IN  IF 1 < i /\ i < Len(n) THEN SubSeq(n, 1, i - 1) ELSE n

\* str(Path(s).parent)
PathParent(s) ==
    LET t == StripSlashes(s)
        i == LastIndexOf(t, "/")
    IN  IF i = 0 THEN <<".">>
        ELSE IF i = 1 THEN <<"/">>
        ELSE SubSeq(t, 1, i - 1)

\* ------------------------------------------------------------------ inputs
\* event['bucket']
BucketName == "src-bucket"

\* event['name']: the object names of the trigger events
Names ==
    { <<"a", ".", "z", "i", "p">>,
      <<"a", ".", "Z", "I", "P">>,
      <<"b", ".", "z", "i", "p">>,
      <<"d", "/", "a", ".", "z", "i", "p">>,
      <<"a", ".", "t", "x", "t">> }

\* names of the entries an uploaded archive may hold
EntryNames ==
    { <<"g", ".", "g", "d", "b", "/">>,
      <<"d", "/", "G", ".", "G", "D", "B", "/">>,
      <<"s", ".", "s", "h", "p">>,
      <<"c", ".", "c", "s", "v">>,
      <<"n", ".", "t", "x", "t">> }

RECURSIVE SeqsUpTo(_, _)
SeqsUpTo(S, n) ==
    IF n = 0 THEN {<<>>}
    ELSE LET shorter == SeqsUpTo(S, n - 1)
         IN  shorter \cup {Append(q, e) : q \in shorter, e \in S}

\* zf.namelist() of the archives that can be uploaded
Archives == SeqsUpTo(EntryNames, MaxEntries)

\* a file on scratch storage or an object of a bucket: who wrote it (the
\* invocation number), what it is, and, for a zip, the entry list it holds
NoFile == [w |-> 0, k |-> "none", src |-> <<>>]

\* the objects a trigger event can refer to: readable archives and one that
\* zipfile.ZipFile rejects
Objects ==
    {[w |-> 0, k |-> "zip", src |-> a] : a \in Archives}
        \cup {[w |-> 0, k |-> "badzip", src |-> <<>>]}

\* the objects used when two invocations run interleaved
ConcObjects ==
    {o \in Objects : o.k = "badzip" \/ o.src = << <<"s", ".", "s", "h", "p">> >>}

\* ------------------------------------------------------- the code's values
ZipExt == <<".", "z", "i", "p">>
GdbExt == <<".", "g", "d", "b", "/">>
ShpExt == <<".", "s", "h", "p">>
CsvExt == <<".", "c", "s", "v">>
ParquetExt == <<".", "p", "a", "r", "q", "u", "e", "t">>

None == <<>>

\* line 25: file_name.lower().endswith('.zip')
IsZip(file_name) == EndsWith(Lower(file_name), ZipExt)

\* line 33: f"/vsizip//vsigs/{bucket_name}/{file_name}"
GcsZipPath(file_name) == <<"/vsizip//vsigs/", BucketName, "/">> \o file_name

\* line 42: f"/tmp/{file_name}"
LocalZipPath(file_name) == <<"/tmp/">> \o file_name

\* line 119: f"{output_filename_stem}.parquet"
OutputBlobName(file_name) == PathStem(file_name) \o ParquetExt

\* TempOutputPath with one fixed name for every archive
TempOutputPath_Fixed(file_name) == <<"/tmp/", "o", "u", "t">> \o ParquetExt

\* lines 83-84: f"/tmp/{output_filename_stem}.parquet"
TempOutputPath(file_name) == <<"/tmp/">> \o PathStem(file_name) \o ParquetExt

\* open(path, 'wb') needs the directory of the path: nothing creates
\* directories under /tmp, so a name with a "/" cannot be downloaded
HasDirectory(file_name) == LastIndexOf(file_name, "/") > 0

ZipNames == {n \in Names : IsZip(n)}
ScratchPaths == {LocalZipPath(n) : n \in ZipNames} \cup {TempOutputPath(n) : n \in ZipNames}
BlobNames == {OutputBlobName(n) : n \in ZipNames}

\* next((f for f in file_list if f.lower().endswith(ext)), None)
RECURSIVE FirstMatch(_, _)
FirstMatch(file_list, ext) ==
    IF file_list = <<>> THEN None
    ELSE IF EndsWith(Lower(Head(file_list)), ext) THEN Head(file_list)
    ELSE FirstMatch(Tail(file_list), ext)

\* Locate with the shapefile test ahead of the geodatabase test
Locate_ShpFirst(file_name, file_list) ==
    LET gdb_path == FirstMatch(file_list, GdbExt)
        shp_path == FirstMatch(file_list, ShpExt)
    IN  IF shp_path # None
        THEN [kind |-> "shp", entry |-> shp_path,
              path |-> GcsZipPath(file_name) \o <<"/">> \o shp_path]
        ELSE IF gdb_path # None
        THEN [kind |-> "gdb", entry |-> gdb_path,
              path |-> GcsZipPath(file_name) \o <<"/">> \o PathParent(gdb_path)]
        ELSE [kind |-> "none", entry |-> None, path |-> None]

\* lines 50-67: the if / elif / elif chain that picks the source.  Both elif
\* conditions test source_data_path, which is still None when they are
\* evaluated.
Locate(file_name, file_list) ==
    LET source_data_path == None
        gdb_path == FirstMatch(file_list, GdbExt)
        shp_path == FirstMatch(file_list, ShpExt)
        csv_path == FirstMatch(file_list, CsvExt)
    IN  IF gdb_path # None
        THEN [kind |-> "gdb", entry |-> gdb_path,
              path |-> GcsZipPath(file_name) \o <<"/">> \o PathParent(gdb_path)]
        ELSE IF source_data_path = None
        THEN IF shp_path # None
             THEN [kind |-> "shp", entry |-> shp_path,
                   path |-> GcsZipPath(file_name) \o <<"/">> \o shp_path]
             ELSE [kind |-> "none", entry |-> None, path |-> source_data_path]
        ELSE IF source_data_path = None
        THEN IF csv_path # None
             THEN [kind |-> "csv", entry |-> csv_path,
                   path |-> GcsZipPath(file_name) \o <<"/">> \o csv_path]
             ELSE [kind |-> "none", entry |-> None, path |-> source_data_path]
        ELSE [kind |-> "none", entry |-> None, path |-> source_data_path]

\* ------------------------------------------------------------------- state
VARIABLES
    pc,               \* where each invocation stands
    file_name,        \* event['name']
    object,           \* the content of the source object the event names
    inv,              \* the number of the invocation (history)
    local_zip_path,   \* line 42; Unbound until assigned
    file_list,        \* line 47
    source_data_path, \* line 36, lines 52/59/66
    source_kind,      \* which branch of lines 50-67 assigned source_data_path
    source_entry,     \* gdb_path / shp_path / csv_path
    exc,              \* the except clause of line 69 ran: its return is pending
    outcome,          \* how the invocation ended
    ops,              \* the operations the invocation attempted (history)
    touched,          \* the scratch paths the invocation used (history)
    conv,             \* how gdal.VectorTranslate ended (history)
    uploads,          \* upload_from_filename calls of the invocation (history)
    uploaded,         \* the file the invocation uploaded (history)
    fs,               \* scratch storage: path -> file
    out_bucket,       \* destination bucket: object name -> file
    next_inv          \* invocations started so far, plus one

locals == <<file_name, object, inv, local_zip_path, file_list, source_data_path,
            source_kind, source_entry, exc>>
history == <<ops, touched, conv, uploads, uploaded>>
vars == <<pc, locals, outcome, history, fs, out_bucket, next_inv>>

Unbound == <<"<unbound>">>

Init ==
    /\ pc = [p \in Procs |-> "idle"]
    /\ file_name = [p \in Procs |-> None]
    /\ object = [p \in Procs |-> NoFile]
    /\ inv = [p \in Procs |-> 0]
    /\ local_zip_path = [p \in Procs |-> Unbound]
    /\ file_list = [p \in Procs |-> <<>>]
    /\ source_data_path = [p \in Procs |-> None]
    /\ source_kind = [p \in Procs |-> "none"]
    /\ source_entry = [p \in Procs |-> None]
    /\ exc = [p \in Procs |-> FALSE]
    /\ outcome = [p \in Procs |-> "none"]
    /\ ops = [p \in Procs |-> {}]
    /\ touched = [p \in Procs |-> {}]
    /\ conv = [p \in Procs |-> "none"]
    /\ uploads = [p \in Procs |-> 0]
    /\ uploaded = [p \in Procs |-> NoFile]
    /\ fs = [path \in ScratchPaths |-> NoFile]
    /\ out_bucket = [b \in BlobNames |-> NoFile]
    /\ next_inv = 1

\* os.path.exists(path)
Exists(path) == fs[path] # NoFile

\* the invocation returns or raises: only pc and outcome change
End(p, how) ==
    /\ pc' = [pc EXCEPT ![p] = "done"]
    /\ outcome' = [outcome EXCEPT ![p] = how]

Goto(p, where) ==
    /\ pc' = [pc EXCEPT ![p] = where]
    /\ UNCHANGED outcome

\* lines 14-22: the runtime calls convert_to_geoparquet(event, context) with
\* the event of an upload; line 36 sets source_data_path = None
Start(p, name, obj) ==
    /\ pc[p] = "idle"
    /\ next_inv <= MaxInvocations
    /\ pc' = [pc EXCEPT ![p] = "check"]
    /\ file_name' = [file_name EXCEPT ![p] = name]
    /\ object' = [object EXCEPT ![p] = obj]
    /\ inv' = [inv EXCEPT ![p] = next_inv]
    /\ next_inv' = next_inv + 1
    /\ outcome' = [outcome EXCEPT ![p] = "running"]
    /\ UNCHANGED <<local_zip_path, file_list, source_data_path, source_kind, source_entry,
                   exc, history, fs, out_bucket>>

\* the call has returned or raised: its frame is gone, the process is free
\* for the next event
Return(p) ==
    /\ pc[p] = "done"
    /\ pc' = [pc EXCEPT ![p] = "idle"]
    /\ file_name' = [file_name EXCEPT ![p] = None]
    /\ object' = [object EXCEPT ![p] = NoFile]
    /\ inv' = [inv EXCEPT ![p] = 0]
    /\ local_zip_path' = [local_zip_path EXCEPT ![p] = Unbound]
    /\ file_list' = [file_list EXCEPT ![p] = <<>>]
    /\ source_data_path' = [source_data_path EXCEPT ![p] = None]
    /\ source_kind' = [source_kind EXCEPT ![p] = "none"]
    /\ source_entry' = [source_entry EXCEPT ![p] = None]
    /\ exc' = [exc EXCEPT ![p] = FALSE]
    /\ outcome' = [outcome EXCEPT ![p] = "none"]
    /\ ops' = [ops EXCEPT ![p] = {}]
    /\ touched' = [touched EXCEPT ![p] = {}]
    /\ conv' = [conv EXCEPT ![p] = "none"]
    /\ uploads' = [uploads EXCEPT ![p] = 0]
    /\ uploaded' = [uploaded EXCEPT ![p] = NoFile]
    /\ UNCHANGED <<fs, out_bucket, next_inv>>

\* CheckExtension without the return of line 27
CheckExtension_NoReturn(p) ==
    /\ pc[p] = "check"
    /\ Goto(p, "handles")
    /\ UNCHANGED <<locals, history, fs, out_bucket, next_inv>>

\* lines 25-27: only zip files are processed
CheckExtension(p) ==
    /\ pc[p] = "check"
    /\ IF ~IsZip(file_name[p]) THEN End(p, "skipped") ELSE Goto(p, "handles")
    /\ UNCHANGED <<locals, history, fs, out_bucket, next_inv>>

\* lines 40-42: storage_client.bucket(), source_bucket.blob(), then the
\* assignment of local_zip_path.  A raise in the first two is caught by line
\* 69, whose return runs the finally clause with local_zip_path unassigned.
MakeHandles(p) ==
    /\ pc[p] = "handles"
    /\ \E raises \in BOOLEAN :
        IF raises
        THEN /\ exc' = [exc EXCEPT ![p] = TRUE]
             /\ UNCHANGED local_zip_path
             /\ Goto(p, "finally")
        ELSE /\ local_zip_path' = [local_zip_path EXCEPT ![p] = LocalZipPath(file_name[p])]
             /\ UNCHANGED exc
             /\ Goto(p, "download")
    /\ UNCHANGED <<file_name, object, inv, file_list, source_data_path, source_kind,
                   source_entry, history, fs, out_bucket, next_inv>>

\* line 43: source_blob.download_to_filename(local_zip_path).  It writes the
\* whole object, or raises before it opened the file, or raises after it
\* wrote a part of it.
Download(p) ==
    /\ pc[p] = "download"
    /\ \E result \in {"ok", "raise", "partial"} :
        /\ HasDirectory(file_name[p]) => result = "raise"
        /\ IF result = "raise"
           THEN /\ UNCHANGED fs
                /\ ops' = [ops EXCEPT ![p] = @ \cup {"download"}]
           ELSE /\ fs' = [fs EXCEPT ![local_zip_path[p]] =
                            [w |-> inv[p],
                             k |-> IF result = "ok" THEN object[p].k ELSE "partial",
                             src |-> IF result = "ok" THEN object[p].src ELSE <<>>]]
                /\ ops' = [ops EXCEPT ![p] = @ \cup {"download", "write"}]
        /\ touched' = [touched EXCEPT ![p] = @ \cup {local_zip_path[p]}]
        /\ IF result = "ok"
           THEN UNCHANGED exc /\ Goto(p, "inspect")
           ELSE exc' = [exc EXCEPT ![p] = TRUE] /\ Goto(p, "finally")
    /\ UNCHANGED <<file_name, object, inv, local_zip_path, file_list, source_data_path,
                   source_kind, source_entry, conv, uploads, uploaded, out_bucket, next_inv>>

\* lines 46-67: zipfile.ZipFile(local_zip_path) raises when the file is gone
\* or is not a zip; otherwise the entries are listed and the source is picked
Inspect(p) ==
    /\ pc[p] = "inspect"
    /\ touched' = [touched EXCEPT ![p] = @ \cup {local_zip_path[p]}]
    /\ IF fs[local_zip_path[p]].k # "zip"
       THEN /\ exc' = [exc EXCEPT ![p] = TRUE]
            /\ UNCHANGED <<file_list, source_data_path, source_kind, source_entry>>
       ELSE LET found == Locate(file_name[p], fs[local_zip_path[p]].src)
            IN  /\ file_list' = [file_list EXCEPT ![p] = fs[local_zip_path[p]].src]
                /\ source_data_path' = [source_data_path EXCEPT ![p] = found.path]
                /\ source_kind' = [source_kind EXCEPT ![p] = found.kind]
                /\ source_entry' = [source_entry EXCEPT ![p] = found.entry]
                /\ UNCHANGED exc
    /\ Goto(p, "finally")
    /\ UNCHANGED <<file_name, object, inv, local_zip_path, ops, conv, uploads, uploaded,
                   fs, out_bucket, next_inv>>

\* AfterFinally without the test of line 78
AfterFinally_NoSourceTest(p) ==
    IF exc[p] THEN End(p, "inspect_error") ELSE Goto(p, "convert")

\* what follows the finally clause: the pending return of line 71, or the
\* test of line 78
AfterFinally(p) ==
    IF exc[p] THEN End(p, "inspect_error")
    ELSE IF source_data_path[p] = None THEN End(p, "no_source")
    ELSE Goto(p, "convert")

\* Finally without the cleanup of lines 75-76
Finally_NoCleanup(p) ==
    /\ pc[p] = "finally"
    /\ IF local_zip_path[p] = Unbound
       THEN End(p, "raised_in_finally")
       ELSE IF exc[p] THEN End(p, "inspect_error")
       ELSE IF source_data_path[p] = None THEN End(p, "no_source")
       ELSE Goto(p, "convert")
    /\ UNCHANGED <<locals, history, fs, out_bucket, next_inv>>

\* line 75: os.path.exists(local_zip_path); the name is unbound when line 40
\* or 41 raised, and the UnboundLocalError leaves the function
Finally(p) ==
    /\ pc[p] = "finally"
    /\ IF local_zip_path[p] = Unbound
       THEN End(p, "raised_in_finally") /\ UNCHANGED touched
       ELSE /\ touched' = [touched EXCEPT ![p] = @ \cup {local_zip_path[p]}]
            /\ IF Exists(local_zip_path[p]) THEN Goto(p, "remove") ELSE AfterFinally(p)
    /\ UNCHANGED <<locals, ops, conv, uploads, uploaded, fs, out_bucket, next_inv>>

\* line 76: os.remove(local_zip_path); FileNotFoundError when the file went
\* away since line 75
RemoveZip(p) ==
    /\ pc[p] = "remove"
    /\ ops' = [ops EXCEPT ![p] = @ \cup {"delete"}]
    /\ IF Exists(local_zip_path[p])
       THEN /\ fs' = [fs EXCEPT ![local_zip_path[p]] = NoFile]
            /\ AfterFinally(p)
       ELSE /\ UNCHANGED fs
            /\ End(p, "raised_in_finally")
    /\ UNCHANGED <<locals, touched, conv, uploads, uploaded, out_bucket, next_inv>>

\* lines 105-111: gdal.VectorTranslate(temp_output_path, source_data_path).
\* The library writes the output, or a part of it, or nothing, and it raises
\* or returns (without gdal.UseExceptions() a failure returns None).
Convert(p) ==
    /\ pc[p] = "convert"
    /\ \E written \in {"nothing", "parquet", "partial"}, raises \in BOOLEAN :
        /\ IF written = "nothing"
           THEN /\ UNCHANGED fs
                /\ ops' = [ops EXCEPT ![p] = @ \cup {"convert"}]
           ELSE /\ fs' = [fs EXCEPT ![TempOutputPath(file_name[p])] =
                            [w |-> inv[p], k |-> written, src |-> <<>>]]
                /\ ops' = [ops EXCEPT ![p] = @ \cup {"convert", "write"}]
        /\ conv' = [conv EXCEPT ![p] = IF raises THEN "raised" ELSE "returned"]
        /\ IF raises THEN End(p, "conversion_error") ELSE Goto(p, "check_output")
    /\ touched' = [touched EXCEPT ![p] = @ \cup {TempOutputPath(file_name[p])}]
    /\ UNCHANGED <<locals, uploads, uploaded, out_bucket, next_inv>>

\* CheckOutput without the test of line 114
CheckOutput_NoTest(p) ==
    /\ pc[p] = "check_output"
    /\ Goto(p, "upload")
    /\ UNCHANGED <<locals, history, fs, out_bucket, next_inv>>

\* lines 114-116: os.path.exists(temp_output_path)
CheckOutput(p) ==
    /\ pc[p] = "check_output"
    /\ touched' = [touched EXCEPT ![p] = @ \cup {TempOutputPath(file_name[p])}]
    /\ IF ~Exists(TempOutputPath(file_name[p])) THEN End(p, "no_output") ELSE Goto(p, "upload")
    /\ UNCHANGED <<locals, ops, conv, uploads, uploaded, fs, out_bucket, next_inv>>

\* lines 118-124: output_blob.upload_from_filename(temp_output_path); a
\* failure of the upload, or the file having gone away, raises out of the
\* function
Upload(p) ==
    /\ pc[p] = "upload"
    /\ ops' = [ops EXCEPT ![p] = @ \cup {"upload"}]
    /\ uploads' = [uploads EXCEPT ![p] = @ + 1]
    /\ touched' = [touched EXCEPT ![p] = @ \cup {TempOutputPath(file_name[p])}]
    /\ \E raises \in BOOLEAN :
        IF raises \/ ~Exists(TempOutputPath(file_name[p]))
        THEN /\ UNCHANGED <<uploaded, out_bucket>>
             /\ End(p, "upload_raised")
        ELSE /\ out_bucket' = [out_bucket EXCEPT ![OutputBlobName(file_name[p])] =
                                 fs[TempOutputPath(file_name[p])]]
             /\ uploaded' = [uploaded EXCEPT ![p] = fs[TempOutputPath(file_name[p])]]
             /\ Goto(p, "remove_output")
    /\ UNCHANGED <<locals, conv, fs, next_inv>>

\* line 127: os.remove(temp_output_path)
RemoveOutput(p) ==
    /\ pc[p] = "remove_output"
    /\ ops' = [ops EXCEPT ![p] = @ \cup {"delete"}]
    /\ touched' = [touched EXCEPT ![p] = @ \cup {TempOutputPath(file_name[p])}]
    /\ IF Exists(TempOutputPath(file_name[p]))
       THEN /\ fs' = [fs EXCEPT ![TempOutputPath(file_name[p])] = NoFile]
            /\ End(p, "success")
       ELSE /\ UNCHANGED fs
            /\ End(p, "remove_raised")
    /\ UNCHANGED <<locals, conv, uploads, uploaded, out_bucket, next_inv>>

Step(p) ==
    \/ CheckExtension(p)
    \/ MakeHandles(p)
    \/ Download(p)
    \/ Inspect(p)
    \/ Finally(p)
    \/ RemoveZip(p)
    \/ Convert(p)
    \/ CheckOutput(p)
    \/ Upload(p)
    \/ RemoveOutput(p)
    \/ Return(p)

\* one process serving one event at a time
Next ==
    \/ \E name \in Names, obj \in Objects : Start(1, name, obj)
    \/ Step(1)

Spec == Init /\ [][Next]_vars

\* two invocations interleaved on the same scratch storage
NextConc ==
    \/ \E p \in Procs, name \in Names, obj \in ConcObjects : Start(p, name, obj)
    \/ \E p \in Procs : Step(p)

SpecConc == Init /\ [][NextConc]_vars

\* ------------------------------------------------------------------ claims
Started(p) == pc[p] # "idle"
Ended(p) == pc[p] = "done"

\* the with-block of lines 46-67 was left without an exception
Inspected(p) ==
    /\ pc[p] \in {"finally", "remove", "convert", "check_output", "upload",
                  "remove_output", "done"}
    /\ ~exc[p]
    /\ outcome[p] # "skipped"

IsGdbEntry(e) == EndsWith(Lower(e), GdbExt)
IsShpEntry(e) == EndsWith(Lower(e), ShpExt)
IsCsvEntry(e) == EndsWith(Lower(e), CsvExt)
Has(list, Is(_)) == \E i \in DOMAIN list : Is(list[i])

\* C1: an event whose object name does not end in '.zip' (case-insensitive)
\* ends as skipped, without raising, and the invocation attempts no
\* download, conversion, upload, scratch write or scratch delete.
C1_NonZipSkipped ==
    \A p \in Procs :
        (Started(p) /\ pc[p] # "check" /\ ~IsZip(file_name[p]))
            => /\ Ended(p)
               /\ outcome[p] = "skipped"
               /\ ops[p] = {}
               /\ touched[p] = {}
               /\ uploads[p] = 0

C1_Witness ==
    \E p \in Procs :
        Ended(p) /\ file_name[p] = <<"a", ".", "t", "x", "t">> /\ outcome[p] = "skipped"

\* C2: an archive whose only recognized entry is a CSV (no '.gdb/' marker,
\* no '.shp' entry) has the CSV entry selected as source_data_path.
C2_CsvSelected ==
    \A p \in Procs :
        (/\ Inspected(p)
         /\ Has(file_list[p], IsCsvEntry)
         /\ ~Has(file_list[p], IsGdbEntry)
         /\ ~Has(file_list[p], IsShpEntry))
            => /\ source_kind[p] = "csv"
               /\ IsCsvEntry(source_entry[p])
               /\ source_data_path[p] = GcsZipPath(file_name[p]) \o <<"/">> \o source_entry[p]

\* C3: when the entry list holds a '.gdb/' marker (case-insensitive), the
\* first such entry in archive order is the source, whatever shapefile or
\* CSV entries the archive also holds and wherever they stand.
C3_GdbPriority ==
    \A p \in Procs :
        (Inspected(p) /\ Has(file_list[p], IsGdbEntry))
            => LET gdbs == {i \in DOMAIN file_list[p] : IsGdbEntry(file_list[p][i])}
                   first == CHOOSE i \in gdbs : \A j \in gdbs : i <= j
               IN  /\ source_kind[p] = "gdb"
                   /\ source_entry[p] = file_list[p][first]
                   /\ source_data_path[p] =
                        GcsZipPath(file_name[p]) \o <<"/">> \o PathParent(file_list[p][first])

C3_Witness ==
    \E p \in Procs :
        /\ Ended(p)
        /\ Inspected(p)
        /\ file_list[p] = << <<"s", ".", "s", "h", "p">>, <<"d", "/", "G", ".", "G", "D", "B", "/">> >>
        /\ source_kind[p] = "gdb"
        /\ source_data_path[p] = GcsZipPath(file_name[p]) \o <<"/", "d">>

HandledOutcomes == {"success", "inspect_error", "no_source", "conversion_error", "no_output"}

\* C4: once an invocation that passed the extension check has ended in
\* success or in a handled failure, its archive copy /tmp/<object-name> is
\* not on scratch storage, and the delete of line 76 is attempted only on a
\* copy that exists.
C4_ZipCopyRemoved ==
    \A p \in Procs :
        /\ (Ended(p) /\ outcome[p] \in HandledOutcomes)
              => ~Exists(LocalZipPath(file_name[p]))
        /\ pc[p] = "remove" => Exists(local_zip_path[p])

C4_Witness ==
    \E p \in Procs :
        /\ Ended(p)
        /\ outcome[p] = "inspect_error"
        /\ {"write", "delete"} \subseteq ops[p]
        /\ ~Exists(LocalZipPath(file_name[p]))

\* C5: no exception leaves the function except from the upload: every
\* invocation ends skipped, in a logged early return, in success, or with
\* the upload's exception.
C5_OnlyUploadRaises ==
    \A p \in Procs :
        Ended(p) => outcome[p] \in HandledOutcomes \cup {"skipped", "upload_raised"}

\* C6: when an invocation that called the converter has ended, the output
\* file it wrote is no longer on scratch storage.
C6_OutputRemoved ==
    \A p \in Procs :
        (Ended(p) /\ "convert" \in ops[p])
            => fs[TempOutputPath(file_name[p])].w # inv[p]

\* C7: an archive with no '.gdb/' marker, no '.shp' entry and no '.csv'
\* entry ends as no-source-found: the converter is not called, no upload is
\* attempted and the invocation puts no object in the destination bucket.
C7_NoSourceNoConversion ==
    \A p \in Procs :
        (/\ Inspected(p)
         /\ ~Has(file_list[p], IsGdbEntry)
         /\ ~Has(file_list[p], IsShpEntry)
         /\ ~Has(file_list[p], IsCsvEntry))
            => /\ pc[p] \in {"finally", "remove", "done"}
               /\ Ended(p) => outcome[p] = "no_source"
               /\ conv[p] = "none"
               /\ ops[p] \cap {"convert", "upload"} = {}
               /\ uploads[p] = 0
               /\ \A b \in BlobNames : out_bucket[b].w # inv[p]

C7_Witness ==
    \E p \in Procs :
        /\ Ended(p)
        /\ Inspected(p)
        /\ file_list[p] = << <<"n", ".", "t", "x", "t">> >>
        /\ outcome[p] = "no_source"

\* C8: the upload is attempted at most once per invocation, only after the
\* converter returned without raising and with the output file on scratch
\* storage; an invocation whose converter raised or whose output is absent
\* ends with no upload attempted; the uploaded object is named
\* <archive-base-name>.parquet, the name of the scratch file.
C8_UploadAfterConversion ==
    /\ [](\A p \in Procs :
            /\ uploads[p] <= 1
            /\ (conv[p] = "raised" \/ outcome[p] = "no_output") => uploads[p] = 0
            /\ uploaded[p] # NoFile =>
                 out_bucket[PathStem(file_name[p]) \o ParquetExt] # NoFile)
    /\ [][\A p \in Procs :
            uploads'[p] > uploads[p]
                => /\ conv[p] = "returned"
                   /\ Exists(<<"/tmp/">> \o PathStem(file_name[p]) \o ParquetExt)
                   /\ \A b \in BlobNames :
                        out_bucket'[b] # out_bucket[b]
                            => /\ b = PathStem(file_name[p]) \o ParquetExt
                               /\ out_bucket'[b] =
                                    fs[<<"/tmp/">> \o PathStem(file_name[p]) \o ParquetExt]]_vars

C8_Witness ==
    \E p \in Procs :
        /\ Ended(p)
        /\ outcome[p] = "success"
        /\ uploads[p] = 1
        /\ conv[p] = "returned"
        /\ out_bucket[<<"a">> \o ParquetExt].w = inv[p]

\* the two invocations use no scratch path in common, and neither uploaded
\* a file the other wrote
Isolated(p, q) ==
    /\ touched[p] \cap touched[q] = {}
    /\ uploaded[p] # NoFile => uploaded[p].w # inv[q]

\* C9: two interleaved invocations whose trigger object names differ use
\* disjoint sets of scratch paths, so neither uploads or deletes the other's
\* file.
C9_DisjointByName ==
    \A p, q \in Procs :
        (p # q /\ Started(p) /\ Started(q) /\ file_name[p] # file_name[q])
            => Isolated(p, q)

\* C9 as amended: two interleaved invocations whose archive base names
\* (Path(name).stem) differ use disjoint sets of scratch paths, so neither
\* uploads or deletes the other's file.
C9_DisjointByStem ==
    \A p, q \in Procs :
        (p # q /\ Started(p) /\ Started(q) /\ PathStem(file_name[p]) # PathStem(file_name[q]))
            => Isolated(p, q)

C9_Witness ==
    \E p, q \in Procs :
        /\ p # q
        /\ PathStem(file_name[p]) # PathStem(file_name[q])
        /\ pc[p] = "upload"
        /\ pc[q] = "upload"
        /\ Cardinality(touched[p]) = 2
        /\ Cardinality(touched[q]) = 2

\* C10: a file an invocation uploads was written by the converter call of
\* that same invocation, never left behind by an earlier one.
C10_UploadsOwnFile ==
    \A p \in Procs :
        uploaded[p] # NoFile => uploaded[p].w = inv[p]

====
